---- MODULE Spec2Model ----
(***************************************************************************)
(* The queue-based NostrHandler of src/src/nostr/handler.ts (lines 18-367) *)
(* with the message codec of src/src/nostr/events.ts.                      *)
(*                                                                         *)
(* One action is one run of the event loop: a callback runs from the point *)
(* where it is resumed to its next await.  The relay pool, the inference   *)
(* provider and the timers are the environment: each await resolves or     *)
(* rejects as the environment chooses.                                     *)
(***************************************************************************)
EXTENDS Integers, Sequences, FiniteSets, TLC

\* ------------------------------------------------------------------ bounds
MaxDeliveries == 3      \* events handed to onevent, over all lifetimes
MaxPending == 2             \* reconnect timers and attempts pending per relay
MaxRestarts == 1        \* process restarts

\* --------------------------------------------------------------- constants
JOB_REQUEST_KIND == 5050    \* events.ts:53, handler.ts:174
JOB_RESULT == 6100          \* types.ts:41, NostrKind.JOB_RESULT
JOB_FEEDBACK == 7000        \* types.ts:42, NostrKind.JOB_FEEDBACK
SeedKind == 6050            \* handler.ts:124, the kind the seed queries for
DefaultTemperature == 7     \* events.ts:95, 0.7 in tenths
DefaultMaxTokens == 1024    \* events.ts:96
DefaultTopP == 10           \* events.ts:97, 1 in tenths
maxAttempts == 3            \* handler.ts:383, retry(operation, maxAttempts = 3, ...)
MAX_RECONNECT_ATTEMPTS == 5 \* handler.ts:29
RECONNECT_DELAY == 5000       \* milliseconds

Relays == {"ra", "rb"}      \* config.relays
NoKey == "none"             \* config.allowedPubkey is not set
Null == "null"              \* JavaScript null / undefined, where a string is expected
NoTag == <<>>               \* undefined, where a tag is expected
Invalid == [invalid |-> TRUE]   \* null, where a JobRequest is expected
NaN == 0 - 1                \* parseFloat / parseInt of a non-number

supportedModels == {"gemma-7b-it", "llama3-70b-8192", "llama3-8b-8192", "mixtral-8x7b-32768"}

\* ------------------------------------------------------------------ events
\* An Event as far as the handler reads it: id, pubkey, kind, tags, content.
E1 == [id |-> "r1", pubkey |-> "u1", kind |-> 5050, content |-> "",
       tags |-> << <<"i", "2+2?", "text">>, <<"param", "model", "llama3-8b-8192">> >>]
E2 == [id |-> "r2", pubkey |-> "u2", kind |-> 5050, content |-> "",
       tags |-> << <<"i", "hi", "text">>, <<"param", "temperature", "0.5">> >>]
E3 == [id |-> "r3", pubkey |-> "u1", kind |-> 5050, content |-> "",
       tags |-> << <<"param", "model", "llama3-8b-8192">> >>]

Events == {E1, E2, E3}
JobIds == {e.id : e \in Events}

\* Array.prototype.find: the first element among those at the indices hits
\* (the ones satisfying the test), or undefined.
Find(tags, hits) ==
    IF hits # {}
    THEN tags[CHOOSE i \in hits : \A j \in hits : i <= j]
    ELSE NoTag

\* t[k] of a JavaScript array (0-based k): undefined beyond its end.
At(t, k) == IF k + 1 \in DOMAIN t THEN t[k + 1] ELSE Null

IsTag(t, name) == At(t, 0) = name
IsParam(t, name) == At(t, 0) = "param" /\ At(t, 1) = name
Tagged(tags, name) == {i \in DOMAIN tags : IsTag(tags[i], name)}
Params(tags, name) == {i \in DOMAIN tags : IsParam(tags[i], name)}

\* parseFloat, in tenths, on the strings the events carry.
parseFloat(s) ==
    CASE s = "0.5" -> 5
      [] s = "0.7" -> 7
      [] s = "1" -> 10
      [] OTHER -> NaN

\* parseInt on the strings the events carry.
parseInt(s) ==
    CASE s = "256" -> 256
      [] s = "1024" -> 1024
      [] OTHER -> NaN

\* Mutant of parseJobRequest: the encrypted marker is not looked for.
parseJobRequestEncrypted(event) ==
    LET inputTag == Find(event.tags, Tagged(event.tags, "i"))
        modelTag == Find(event.tags, Params(event.tags, "model"))
        model == IF modelTag # NoTag THEN At(modelTag, 2) ELSE "mixtral-8x7b-32768"
        tempTag == Find(event.tags, Params(event.tags, "temperature"))
        maxTokensTag == Find(event.tags, Params(event.tags, "max_tokens"))
        topPTag == Find(event.tags, Params(event.tags, "top_p"))
    IN  IF event.kind # JOB_REQUEST_KIND THEN Invalid
        ELSE IF inputTag = NoTag THEN Invalid
        ELSE IF model \notin supportedModels THEN Invalid
        ELSE [id |-> event.id,
              pubkey |-> event.pubkey,
              content |-> event.content,
              model |-> model,
              temperature |-> IF tempTag # NoTag THEN parseFloat(At(tempTag, 2)) ELSE DefaultTemperature,
              max_tokens |-> IF maxTokensTag # NoTag THEN parseInt(At(maxTokensTag, 2)) ELSE DefaultMaxTokens,
              top_p |-> IF topPTag # NoTag THEN parseFloat(At(topPTag, 2)) ELSE DefaultTopP,
              input |-> At(inputTag, 1),
              inputType |-> At(inputTag, 2)]

\* Mutant of parseJobRequest: an absent temperature is left undefined.
parseJobRequestNoDefault(event) ==
    LET isEncrypted(t) == IsTag(t, "encrypted")
        inputTag == Find(event.tags, Tagged(event.tags, "i"))
        modelTag == Find(event.tags, Params(event.tags, "model"))
        model == IF modelTag # NoTag THEN At(modelTag, 2) ELSE "mixtral-8x7b-32768"
        tempTag == Find(event.tags, Params(event.tags, "temperature"))
        maxTokensTag == Find(event.tags, Params(event.tags, "max_tokens"))
        topPTag == Find(event.tags, Params(event.tags, "top_p"))
    IN  IF event.kind # JOB_REQUEST_KIND THEN Invalid
        ELSE IF \E i \in DOMAIN event.tags : isEncrypted(event.tags[i]) THEN Invalid
        ELSE IF inputTag = NoTag THEN Invalid
        ELSE IF model \notin supportedModels THEN Invalid
        ELSE [id |-> event.id,
              pubkey |-> event.pubkey,
              content |-> event.content,
              model |-> model,
              temperature |-> IF tempTag # NoTag THEN parseFloat(At(tempTag, 2)) ELSE NaN,
              max_tokens |-> IF maxTokensTag # NoTag THEN parseInt(At(maxTokensTag, 2)) ELSE DefaultMaxTokens,
              top_p |-> IF topPTag # NoTag THEN parseFloat(At(topPTag, 2)) ELSE DefaultTopP,
              input |-> At(inputTag, 1),
              inputType |-> At(inputTag, 2)]

parseJobRequest(event) ==
    LET isEncrypted(t) == IsTag(t, "encrypted")
        inputTag == Find(event.tags, Tagged(event.tags, "i"))
        modelTag == Find(event.tags, Params(event.tags, "model"))
        model == IF modelTag # NoTag THEN At(modelTag, 2) ELSE "mixtral-8x7b-32768"
        tempTag == Find(event.tags, Params(event.tags, "temperature"))
        maxTokensTag == Find(event.tags, Params(event.tags, "max_tokens"))
        topPTag == Find(event.tags, Params(event.tags, "top_p"))
    IN  IF event.kind # JOB_REQUEST_KIND THEN Invalid
        ELSE IF \E i \in DOMAIN event.tags : isEncrypted(event.tags[i]) THEN Invalid
        ELSE IF inputTag = NoTag THEN Invalid
        ELSE IF model \notin supportedModels THEN Invalid
        ELSE [id |-> event.id,
              pubkey |-> event.pubkey,
              content |-> event.content,
              model |-> model,
              temperature |-> IF tempTag # NoTag THEN parseFloat(At(tempTag, 2)) ELSE DefaultTemperature,
              max_tokens |-> IF maxTokensTag # NoTag THEN parseInt(At(maxTokensTag, 2)) ELSE DefaultMaxTokens,
              top_p |-> IF topPTag # NoTag THEN parseFloat(At(topPTag, 2)) ELSE DefaultTopP,
              input |-> At(inputTag, 1),
              inputType |-> At(inputTag, 2)]

\* JSON.stringify of the request event, kept apart from the event itself.
JSONstringify(event) == <<"json", event.id, event.pubkey, event.kind>>

\* Mutant of createJobResult: the e and p tags carry each other's value.
createJobResultSwapped(result) ==
    [kind |-> JOB_RESULT,
     tags |-> << <<"e", result.customerPubkey>>, <<"p", result.requestId>>,
                 <<"request", JSONstringify(result.request)>> >>,
     content |-> IF result.content = Null THEN "" ELSE result.content]

createJobResult(result) ==
    [kind |-> JOB_RESULT,
     tags |-> << <<"e", result.requestId>>, <<"p", result.customerPubkey>>,
                 <<"request", JSONstringify(result.request)>> >>,
     content |-> IF result.content = Null THEN "" ELSE result.content]

\* Mutant of createJobFeedback: the p tag carries the request id instead
\* of the requester.
createJobFeedbackMisaddressed(feedback) ==
    [kind |-> JOB_FEEDBACK,
     tags |-> << <<"e", feedback.requestId>>, <<"p", feedback.requestId>>,
                 <<"status", feedback.status,
                   IF feedback.extraInfo = Null THEN "" ELSE feedback.extraInfo>> >>,
     content |-> ""]

createJobFeedback(feedback) ==
    [kind |-> JOB_FEEDBACK,
     tags |-> << <<"e", feedback.requestId>>, <<"p", feedback.customerPubkey>>,
                 <<"status", feedback.status,
                   IF feedback.extraInfo = Null THEN "" ELSE feedback.extraInfo>> >>,
     content |-> ""]

\* ------------------------------------------------------------------- state
VARIABLES
    allowedPubkey,      \* config.allowedPubkey, or NoKey
    relayStore,         \* the engine's own result events held by the relays
    startPc,            \* where start() is
    processedEvents,    \* this.processedEvents
    requestQueue,       \* this.requestQueue
    isProcessing,       \* this.isProcessing
    workers,            \* the processNextRequest invocations past their guard
    seeded,             \* history: the identifiers the seed found
    inferenceCalls,     \* history: inference invocations per job identifier
    acceptedLog,        \* history: identifiers in the order they were queued
    dequeuedLog,        \* history: identifiers in the order they were dequeued
    deliveries,         \* events handed to onevent so far
    restarts            \* process restarts so far

\* The endpoint bookkeeping of the handler and what the pool holds for it.
VARIABLES
    flaky,              \* the relays whose ensureRelay may reject
    connectIdx,         \* connectToRelays: position of its loop in config.relays
    reconnectAttempts,  \* this.reconnectAttempts, 0 where there is no entry
    activeRelays,       \* this.activeRelays
    connected,          \* the relays the pool has an open connection to
    timers,             \* pending setTimeout(() => reconnectToRelay(relay)) per relay
    timerAttempts,      \* ensureRelay calls in flight per relay, made from a timer
    tickAttempts,       \* ensureRelay calls in flight per relay, awaited by a heartbeat tick
    heartbeatInterval,  \* TRUE when the interval timer is set
    subscriptions,      \* this.subscriptions: per key "none", or the closer of an "open" / "closed" subscription
    liveSubs,           \* open subscriptions at the pool per relay list
    stopped,            \* history: stop() was called
    consecFails,        \* history: failed reconnect attempts per relay since the last success or reset
    idle                \* now - lastEventTime > SUBSCRIPTION_TIMEOUT: the staleness threshold is exceeded

\* parseJobRequest applied to an event, outside the engine.
VARIABLES
    parseInput,         \* the event handed to parseJobRequest
    parseOutput         \* what it returned, or NotParsed

\* One call of the retry helper by the handler that wraps its publishes in it.
VARIABLES
    retryCall           \* the call: its arguments, its loop, what it did so far, where its caller went

\* One call of the MCP server's tool handler.
VARIABLES
    toolCall            \* the request, where the handler is, the API calls it made, what it gave back

pipelineVars == <<allowedPubkey, relayStore, startPc, processedEvents, requestQueue,
                  isProcessing, workers, seeded, inferenceCalls, acceptedLog, dequeuedLog,
                  deliveries, restarts>>
poolVars == <<flaky, connectIdx, reconnectAttempts, activeRelays, connected, timers, timerAttempts,
              tickAttempts, heartbeatInterval, subscriptions, liveSubs, stopped, consecFails,
              idle>>
\* The endpoint bookkeeping without the staleness clock.
poolRest == <<flaky, connectIdx, reconnectAttempts, activeRelays, connected, timers, timerAttempts,
              tickAttempts, heartbeatInterval, subscriptions, liveSubs, stopped, consecFails>>
codecVars == <<parseInput, parseOutput>>
retryVars == <<retryCall>>
toolVars == <<toolCall>>
\* What the job pipeline leaves alone.
outsidePipeline == <<poolVars, codecVars, retryVars, toolVars>>

vars == <<pipelineVars, poolVars, codecVars, retryVars, toolVars>>

\* config.relays as the array it is.
RelayOrder == <<"ra", "rb">>
\* relaysToUse.join(','): the relay lists are kept as the keys themselves.
AllRelays == RelayOrder
Only(r) == <<r>>
SubKeys == {AllRelays} \cup {Only(r) : r \in Relays}

\* The endpoint bookkeeping as the constructor leaves it.
Constructed ==
    /\ connectIdx = 1
    /\ reconnectAttempts = [r \in Relays |-> 0]
    /\ activeRelays = {}
    /\ connected = {}
    /\ timers = [r \in Relays |-> 0]
    /\ timerAttempts = [r \in Relays |-> 0]
    /\ tickAttempts = [r \in Relays |-> 0]
    /\ heartbeatInterval = FALSE
    /\ subscriptions = [k \in SubKeys |-> "none"]
    /\ liveSubs = [k \in SubKeys |-> 0]
    /\ stopped = FALSE
    /\ consecFails = [r \in Relays |-> 0]
    /\ idle = FALSE

\* retry's default for baseDelay, in milliseconds.
baseDelay == 1000

\* What has no value yet: lastError before the first failure, the outcome
\* of a call that has not settled.
Undefined == [undefined |-> TRUE]

\* A call of retry(operation) made for the publish of step, before its
\* first line runs.  invoked and waits are history: the outcome of every
\* invocation of the operation and every delay awaited, in order.
NewCall(step, limit, base) ==
    [step |-> step, maxAttempts |-> limit, baseDelay |-> base, pc |-> "idle", attempt |-> 0,
     lastError |-> Undefined, invoked |-> <<>>, waits |-> <<>>, settled |-> Undefined,
     callerPc |-> "awaitRetry"]

\* No call of retry is followed.
RetryIdle == retryCall = NewCall("processing", maxAttempts, baseDelay)

\* A JavaScript value an argument of a tool call can have: its typeof (with
\* "array" for what Array.isArray accepts), its text, and its length when
\* it is an array.
Value(type, text, length) == [type |-> type, text |-> text, length |-> length]
Absent == Value("undefined", "", 0)
Number(text) == Value("number", text, 0)
String(text) == Value("string", text, 0)
False == Value("boolean", "false", 0)

\* {}: the arguments of a request that has none.
NoArguments ==
    [messages |-> Absent, model |-> Absent, temperature |-> Absent, max_tokens |-> Absent,
     top_p |-> Absent]

\* A request for the tool name with the arguments args, before the handler
\* runs.  calls is history: the parameters of every chat.completions.create.
NewToolCall(name, args) ==
    [name |-> name, arguments |-> args, pc |-> "idle", calls |-> <<>>,
     outcome |-> [kind |-> "pending", text |-> <<>>]]

\* No tool call is followed.
ToolIdle == toolCall = NewToolCall("chat_completion", NoArguments)

\* No call of parseJobRequest outside the engine.
NotParsed == [pending |-> TRUE]
ParserIdle == parseInput = E1 /\ parseOutput = NotParsed

\* A result event of an earlier run of the engine, as the relays hold it.
PriorResult(id) ==
    [kind |-> SeedKind, tags |-> << <<"e", id>>, <<"p", "u0">> >>, content |-> "old"]

Memory ==
    /\ startPc = "connect"
    /\ processedEvents = {}
    /\ requestQueue = <<>>
    /\ isProcessing = FALSE
    /\ workers = <<>>
    /\ seeded = {}
    /\ inferenceCalls = [id \in JobIds |-> 0]
    /\ acceptedLog = <<>>
    /\ dequeuedLog = <<>>

Init ==
    /\ allowedPubkey \in {NoKey, "u1"}
    /\ relayStore \in {{PriorResult(id) : id \in S} : S \in SUBSET {"r1", "r2"}}
    /\ Memory
    /\ deliveries = 0
    /\ restarts = 0
    /\ flaky = {}
    /\ Constructed
    /\ ParserIdle
    /\ RetryIdle
    /\ ToolIdle

\* ------------------------------------------------------- the environment
\* pool.publish(relays, event) gives one promise per relay; acc is the set of
\* relays whose promise resolves.  Promise.all rejects unless all resolve.
PublishOutcomes == SUBSET Relays
PromiseAll(acc) == acc = Relays
\* The event reaches the network when at least one relay takes it.
Reaches(acc) == acc # {}

PublishRejection == "publish rejected"
\* groq.chat.completions.create: a completion with text, one with null
\* content, or a rejection with an Error.
InferenceOutcomes ==
    {[ok |-> TRUE, content |-> "4"], [ok |-> TRUE, content |-> Null],
     [ok |-> FALSE, content |-> "provider error"]}

\* pool.querySync over the relays for the engine's own events of one kind.
querySync(kind) == {m \in relayStore : m.kind = kind}

\* response.tags.find(t => t[0] === 'e')?.[1]
RequestIdOf(response) ==
    LET tag == Find(response.tags, Tagged(response.tags, "e"))
    IN  IF tag = NoTag THEN Null ELSE At(tag, 1)

\* ------------------------------------------------------------ the handler
\* publishFeedback / publishResult: the event is built and handed to
\* pool.publish once; the worker's record keeps what reached the network
\* (msgs), whether every publish so far resolved (pubOk) and how many times
\* pool.publish was called for the event (calls).
Sent(w, msg, acc) ==
    [w EXCEPT !.msgs = IF Reaches(acc) THEN Append(@, msg) ELSE @,
              !.pubOk = @ /\ PromiseAll(acc),
              !.calls = 1]

publishFeedback(w, status, extraInfo, acc) ==
    Sent(w, createJobFeedback([requestId |-> w.request.id,
                               customerPubkey |-> w.request.pubkey,
                               status |-> status,
                               extraInfo |-> extraInfo]), acc)

publishResult(w, acc) ==
    Sent(w, createJobResult([requestId |-> w.request.id,
                             customerPubkey |-> w.request.pubkey,
                             content |-> w.content,
                             request |-> w.event]), acc)

\* handleJobRequest up to its first await: the request is parsed, and either
\* the function returns at once or the processing feedback is on its way.
handleJobRequest(event) ==
    LET request == parseJobRequest(event)
    IN  [event |-> event, request |-> request,
         pc |-> IF request = Invalid THEN "returned" ELSE "pubProcessing",
         content |-> Null, error |-> Null, inference |-> "none",
         msgs |-> <<>>, pubOk |-> TRUE, calls |-> 0]

\* processNextRequest after handleJobRequest settled: a return marks the
\* event processed, a throw is logged; both go on to the pacing delay.
Settled(w, threw) == [w EXCEPT !.pc = "pacing"]

\* Mutant of Marked: processedEvents.add is left out.
MarkedNever(pe, w, threw) == pe

\* processedEvents.add(event.id), reached when handleJobRequest returned.
Marked(pe, w, threw) == IF threw THEN pe ELSE pe \cup {w.event.id}

\* Mutant of Busy: the guard forgets the isProcessing flag.
BusyQueueOnly(isP, q) == Len(q) = 0

\* The guard of processNextRequest.
Busy(isP, q) == isP \/ Len(q) = 0

\* Mutant of Shift: requestQueue.pop() in place of shift().
ShiftLast(q) == [event |-> q[Len(q)], rest |-> SubSeq(q, 1, Len(q) - 1)]

\* requestQueue.shift()
Shift(q) == [event |-> Head(q), rest |-> Tail(q)]

\* processNextRequest, called with the queue, the flag, the running
\* invocations and the processed set as its caller left them.
processNextRequest(q, isP, ws, pe) ==
    IF Busy(isP, q)
    THEN /\ requestQueue' = q
         /\ isProcessing' = isP
         /\ workers' = ws
         /\ processedEvents' = pe
         /\ UNCHANGED dequeuedLog
    ELSE LET s == Shift(q)
             w == handleJobRequest(s.event)
         IN  /\ requestQueue' = s.rest
             /\ isProcessing' = TRUE
             /\ dequeuedLog' = Append(dequeuedLog, s.event.id)
             /\ IF w.pc = "returned"
                THEN /\ workers' = Append(ws, Settled(w, FALSE))
                     /\ processedEvents' = Marked(pe, w, FALSE)
                ELSE /\ workers' = Append(ws, w)
                     /\ processedEvents' = pe

\* Mutant of Accepts: the processed set is not consulted.
AcceptsProcessed(e) == ~(allowedPubkey # NoKey /\ e.pubkey # allowedPubkey)

\* Mutant of Accepts: the allow-list is not consulted.
AcceptsAnyRequester(e) == e.id \notin processedEvents

\* The checks of onevent that let an event into the queue.
Accepts(e) ==
    /\ e.id \notin processedEvents
    /\ ~(allowedPubkey # NoKey /\ e.pubkey # allowedPubkey)

\* Mutant of Deliver: the dispatcher is called as if the flag were cleared
\* when the job settled, not when its pacing delay elapsed.
DeliverIgnoringPacing(e) ==
    /\ startPc = "started"
    /\ deliveries < MaxDeliveries
    /\ deliveries' = deliveries + 1
    /\ IF Accepts(e)
       THEN /\ acceptedLog' = Append(acceptedLog, e.id)
            /\ processNextRequest(Append(requestQueue, e),
                                  isProcessing /\ \A i \in DOMAIN workers : workers[i].pc # "pacing",
                                  workers, processedEvents)
       ELSE UNCHANGED <<acceptedLog, requestQueue, isProcessing, workers, processedEvents, dequeuedLog>>
    /\ UNCHANGED outsidePipeline
    /\ UNCHANGED <<allowedPubkey, relayStore, startPc, seeded, inferenceCalls, restarts>>

\* subscribeToRequests.onevent
Deliver(e) ==
    /\ startPc = "started"
    /\ deliveries < MaxDeliveries
    /\ deliveries' = deliveries + 1
    /\ IF Accepts(e)
       THEN /\ acceptedLog' = Append(acceptedLog, e.id)
            /\ processNextRequest(Append(requestQueue, e), isProcessing, workers, processedEvents)
       ELSE UNCHANGED <<acceptedLog, requestQueue, isProcessing, workers, processedEvents, dequeuedLog>>
    /\ UNCHANGED outsidePipeline
    /\ UNCHANGED <<allowedPubkey, relayStore, startPc, seeded, inferenceCalls, restarts>>

\* Mutant of Step: the success feedback is sent before the result.
StepSuccessFirst(pc, ok) ==
    CASE pc = "pubProcessing" -> IF ok THEN "inference" ELSE "errDelay"
      [] pc = "inference" -> IF ok THEN "delaySuccess" ELSE "errDelay"
      [] pc = "delaySuccess" -> "pubSuccess"
      [] pc = "pubSuccess" -> IF ok THEN "delayResult" ELSE "errDelay"
      [] pc = "delayResult" -> "pubResult"
      [] pc = "pubResult" -> IF ok THEN "returned" ELSE "errDelay"
      [] pc = "errDelay" -> "pubError"
      [] pc = "pubError" -> IF ok THEN "returned" ELSE "threw"

\* Mutant of Step: the inference call is made although the processing
\* feedback was refused.
StepInferenceAnyway(pc, ok) ==
    CASE pc = "pubProcessing" -> "inference"
      [] pc = "inference" -> IF ok THEN "delayResult" ELSE "errDelay"
      [] pc = "delayResult" -> "pubResult"
      [] pc = "pubResult" -> IF ok THEN "delaySuccess" ELSE "errDelay"
      [] pc = "delaySuccess" -> "pubSuccess"
      [] pc = "pubSuccess" -> IF ok THEN "returned" ELSE "errDelay"
      [] pc = "errDelay" -> "pubError"
      [] pc = "pubError" -> IF ok THEN "returned" ELSE "threw"

\* The control flow of handleJobRequest: where the function goes from the
\* await at pc when that await resolved (ok) or rejected.
Step(pc, ok) ==
    CASE pc = "pubProcessing" -> IF ok THEN "inference" ELSE "errDelay"
      [] pc = "inference" -> IF ok THEN "delayResult" ELSE "errDelay"
      [] pc = "delayResult" -> "pubResult"
      [] pc = "pubResult" -> IF ok THEN "delaySuccess" ELSE "errDelay"
      [] pc = "delaySuccess" -> "pubSuccess"
      [] pc = "pubSuccess" -> IF ok THEN "returned" ELSE "errDelay"
      [] pc = "errDelay" -> "pubError"
      [] pc = "pubError" -> IF ok THEN "returned" ELSE "threw"

Awaiting(i, pc) == i \in DOMAIN workers /\ workers[i].pc = pc

\* The worker i goes on as w, which is where handleJobRequest got to; when
\* the function has settled, processNextRequest resumes in the same run.
Resume(i, w) ==
    IF w.pc \in {"returned", "threw"}
    THEN /\ workers' = [workers EXCEPT ![i] = Settled(w, w.pc = "threw")]
         /\ processedEvents' = Marked(processedEvents, w, w.pc = "threw")
    ELSE /\ workers' = [workers EXCEPT ![i] = w]
         /\ UNCHANGED processedEvents

Failed(w, ok, message) == IF ok THEN w ELSE [w EXCEPT !.error = message]

\* await publishFeedback({status: 'processing'}) settles; when it resolved
\* the inference call is made.
PublishProcessingDone(i, acc) ==
    /\ Awaiting(i, "pubProcessing")
    /\ LET ok == PromiseAll(acc)
           w == Failed(publishFeedback(workers[i], "processing", Null, acc), ok, PublishRejection)
           next == Step("pubProcessing", ok)
       IN  /\ Resume(i, [w EXCEPT !.pc = next])
           /\ inferenceCalls' = IF next = "inference"
                                THEN [inferenceCalls EXCEPT ![w.request.id] = @ + 1]
                                ELSE inferenceCalls
    /\ UNCHANGED outsidePipeline
    /\ UNCHANGED <<allowedPubkey, relayStore, startPc, seeded, requestQueue, isProcessing,
                   acceptedLog, dequeuedLog, deliveries, restarts>>

\* await groq.chat.completions.create(...) settles.
InferenceDone(i, out) ==
    /\ Awaiting(i, "inference")
    /\ LET w == Failed([workers[i] EXCEPT !.inference = IF out.ok THEN "ok" ELSE "failed",
                                          !.content = IF out.ok THEN out.content ELSE @],
                       out.ok, out.content)
       IN  Resume(i, [w EXCEPT !.pc = Step("inference", out.ok)])
    /\ UNCHANGED outsidePipeline
    /\ UNCHANGED <<allowedPubkey, relayStore, startPc, seeded, requestQueue, isProcessing,
                   inferenceCalls, acceptedLog, dequeuedLog, deliveries, restarts>>

\* One of the delay(2000) calls inside handleJobRequest elapses.
DelayDone(i) ==
    /\ i \in DOMAIN workers
    /\ workers[i].pc \in {"delayResult", "delaySuccess", "errDelay"}
    /\ Resume(i, [workers[i] EXCEPT !.pc = Step(@, TRUE)])
    /\ UNCHANGED outsidePipeline
    /\ UNCHANGED <<allowedPubkey, relayStore, startPc, seeded, requestQueue, isProcessing,
                   inferenceCalls, acceptedLog, dequeuedLog, deliveries, restarts>>

\* await publishResult(...) settles.
PublishResultDone(i, acc) ==
    /\ Awaiting(i, "pubResult")
    /\ LET ok == PromiseAll(acc)
           w == Failed(publishResult(workers[i], acc), ok, PublishRejection)
       IN  /\ Resume(i, [w EXCEPT !.pc = Step("pubResult", ok)])
           /\ relayStore' = IF Reaches(acc)
                            THEN relayStore \cup {w.msgs[Len(w.msgs)]}
                            ELSE relayStore
    /\ UNCHANGED outsidePipeline
    /\ UNCHANGED <<allowedPubkey, startPc, seeded, requestQueue, isProcessing,
                   inferenceCalls, acceptedLog, dequeuedLog, deliveries, restarts>>

\* await publishFeedback({status: 'success'}) settles.
PublishSuccessDone(i, acc) ==
    /\ Awaiting(i, "pubSuccess")
    /\ LET ok == PromiseAll(acc)
           w == Failed(publishFeedback(workers[i], "success", Null, acc), ok, PublishRejection)
       IN  Resume(i, [w EXCEPT !.pc = Step("pubSuccess", ok)])
    /\ UNCHANGED outsidePipeline
    /\ UNCHANGED <<allowedPubkey, relayStore, startPc, seeded, requestQueue, isProcessing,
                   inferenceCalls, acceptedLog, dequeuedLog, deliveries, restarts>>

\* await publishFeedback({status: 'error'}) in the catch block settles.
PublishErrorDone(i, acc) ==
    /\ Awaiting(i, "pubError")
    /\ LET ok == PromiseAll(acc)
           w == publishFeedback(workers[i], "error", workers[i].error, acc)
       IN  Resume(i, [w EXCEPT !.pc = Step("pubError", ok)])
    /\ UNCHANGED outsidePipeline
    /\ UNCHANGED <<allowedPubkey, relayStore, startPc, seeded, requestQueue, isProcessing,
                   inferenceCalls, acceptedLog, dequeuedLog, deliveries, restarts>>

Without(ws, i) == SubSeq(ws, 1, i - 1) \o SubSeq(ws, i + 1, Len(ws))

\* Mutant of PacingDone: the finally block clears the flag and does not call
\* processNextRequest.
PacingDoneNoDispatch(i) ==
    /\ Awaiting(i, "pacing")
    /\ isProcessing' = FALSE
    /\ workers' = Without(workers, i)
    /\ UNCHANGED outsidePipeline
    /\ UNCHANGED <<allowedPubkey, relayStore, startPc, seeded, inferenceCalls, acceptedLog,
                   deliveries, restarts, requestQueue, processedEvents, dequeuedLog>>

\* The pacing delay of the finally block elapses: the flag is cleared and
\* processNextRequest is called again.
PacingDone(i) ==
    /\ Awaiting(i, "pacing")
    /\ processNextRequest(requestQueue, FALSE, Without(workers, i), processedEvents)
    /\ UNCHANGED outsidePipeline
    /\ UNCHANGED <<allowedPubkey, relayStore, startPc, seeded, inferenceCalls, acceptedLog,
                   deliveries, restarts>>

\* ------------------------------------------------------------------ start
\* connectToRelays: the endpoint bookkeeping is not part of this state.
ConnectToRelays ==
    /\ startPc = "connect"
    /\ startPc' = "load"
    /\ UNCHANGED outsidePipeline
    /\ UNCHANGED <<allowedPubkey, relayStore, processedEvents, requestQueue, isProcessing,
                   workers, seeded, inferenceCalls, acceptedLog, dequeuedLog, deliveries, restarts>>

\* loadProcessedEvents: the seed of the processed set.
LoadProcessedEvents ==
    /\ startPc = "load"
    /\ startPc' = "ad"
    /\ LET requestIds == {RequestIdOf(r) : r \in {m \in querySync(SeedKind) : RequestIdOf(m) # Null}}
       IN  /\ processedEvents' = processedEvents \cup requestIds
           /\ seeded' = requestIds
    /\ UNCHANGED outsidePipeline
    /\ UNCHANGED <<allowedPubkey, relayStore, requestQueue, isProcessing,
                   workers, inferenceCalls, acceptedLog, dequeuedLog, deliveries, restarts>>

\* publishHandlerAd settles either way; subscribeToRequests opens the
\* subscription and the heartbeat starts.
PublishHandlerAd(acc) ==
    /\ startPc = "ad"
    /\ startPc' = "started"
    /\ UNCHANGED outsidePipeline
    /\ UNCHANGED <<allowedPubkey, relayStore, processedEvents, requestQueue, isProcessing,
                   workers, seeded, inferenceCalls, acceptedLog, dequeuedLog, deliveries, restarts>>

\* The process is stopped and started again: the memory is lost, the relays
\* keep what was published.
Restart ==
    /\ restarts < MaxRestarts
    /\ restarts' = restarts + 1
    /\ startPc' = "connect"
    /\ processedEvents' = {}
    /\ requestQueue' = <<>>
    /\ isProcessing' = FALSE
    /\ workers' = <<>>
    /\ seeded' = {}
    /\ inferenceCalls' = [id \in JobIds |-> 0]
    /\ acceptedLog' = <<>>
    /\ dequeuedLog' = <<>>
    /\ UNCHANGED outsidePipeline
    /\ UNCHANGED <<allowedPubkey, relayStore, deliveries>>

WorkerStep ==
    \E i \in DOMAIN workers :
        \/ \E acc \in PublishOutcomes : PublishProcessingDone(i, acc)
        \/ \E out \in InferenceOutcomes : InferenceDone(i, out)
        \/ DelayDone(i)
        \/ \E acc \in PublishOutcomes : PublishResultDone(i, acc)
        \/ \E acc \in PublishOutcomes : PublishSuccessDone(i, acc)
        \/ \E acc \in PublishOutcomes : PublishErrorDone(i, acc)
        \/ PacingDone(i)

Running ==
    \/ ConnectToRelays
    \/ LoadProcessedEvents
    \/ \E acc \in PublishOutcomes : PublishHandlerAd(acc)
    \/ \E e \in Events : Deliver(e)
    \/ \E i \in DOMAIN workers, acc \in PublishOutcomes : PublishProcessingDone(i, acc)
    \/ \E i \in DOMAIN workers, out \in InferenceOutcomes : InferenceDone(i, out)
    \/ \E i \in DOMAIN workers : DelayDone(i)
    \/ \E i \in DOMAIN workers, acc \in PublishOutcomes : PublishResultDone(i, acc)
    \/ \E i \in DOMAIN workers, acc \in PublishOutcomes : PublishSuccessDone(i, acc)
    \/ \E i \in DOMAIN workers, acc \in PublishOutcomes : PublishErrorDone(i, acc)
    \/ \E i \in DOMAIN workers : PacingDone(i)

Next == Running \/ Restart

Spec == Init /\ [][Next]_vars

\* The timers fire and, as C10 supposes, every publish and inference call
\* returns: a worker that can take a step takes it.
FairSpec == Init /\ [][Running]_vars /\ WF_vars(WorkerStep)

\* The steps of a worker that the engine or the relays complete: every
\* await but the one on the inference provider.
SettlingStep ==
    \E i \in DOMAIN workers :
        \/ \E acc \in PublishOutcomes : PublishProcessingDone(i, acc)
        \/ DelayDone(i)
        \/ \E acc \in PublishOutcomes : PublishResultDone(i, acc)
        \/ \E acc \in PublishOutcomes : PublishSuccessDone(i, acc)
        \/ \E acc \in PublishOutcomes : PublishErrorDone(i, acc)
        \/ PacingDone(i)

\* The timers fire and every publish returns, but the provider is free never
\* to answer: handleJobRequest awaits groq.chat.completions.create with no
\* timer of its own.
ProviderSilentSpec == Init /\ [][Running]_vars /\ WF_vars(SettlingStep)

\* ------------------------------------------------------ the endpoint pool
\* pool.ensureRelay(r) resolves or, for a flaky relay, rejects.
EnsureOutcomes(r) == IF r \in flaky THEN BOOLEAN ELSE {TRUE}

Index(r) == CHOOSE k \in DOMAIN RelayOrder : RelayOrder[k] = r
Inflight(r) == timerAttempts[r] + tickAttempts[r]
Pending(r) == timers[r] + Inflight(r)
pipelineRest == <<allowedPubkey, relayStore, processedEvents, requestQueue, isProcessing,
                  workers, seeded, inferenceCalls, acceptedLog, dequeuedLog, deliveries, restarts>>

\* The counter after one more increment.  The code only asks whether it is
\* above MAX_RECONNECT_ATTEMPTS, so the values above it are kept as one.
Counted(n) == IF n > MAX_RECONNECT_ATTEMPTS THEN n ELSE n + 1

\* reconnectToRelay's catch block: RECONNECT_DELAY * Math.pow(2, n - 1) for
\* the counter n as it is when ensureRelay rejected; Math.pow(2, -1) is 0.5.
backoffDelay(n) == IF n = 0 THEN RECONNECT_DELAY \div 2 ELSE RECONNECT_DELAY * 2 ^ (n - 1)

\* Mutant of GivesUp: one more attempt is let through.
GivesUpLater(n) == n > MAX_RECONNECT_ATTEMPTS + 1

\* reconnectToRelay: the test on the incremented counter that makes it
\* return without calling ensureRelay.
GivesUp(n) == n > MAX_RECONNECT_ATTEMPTS

\* The subscriptions as a pair: map is this.subscriptions, live what the pool
\* holds open.
Subs == [map |-> subscriptions, live |-> liveSubs]

\* The closer stored under key k is called.
CloseEntry(sub, k) ==
    IF sub.map[k] = "open"
    THEN [map |-> [sub.map EXCEPT ![k] = "closed"], live |-> [sub.live EXCEPT ![k] = @ - 1]]
    ELSE sub

\* Object.values(this.subscriptions).forEach(close => close())
CloseAll(sub) ==
    [map |-> [k \in SubKeys |-> IF sub.map[k] = "open" THEN "closed" ELSE sub.map[k]],
     live |-> [k \in SubKeys |-> IF sub.map[k] = "open" THEN sub.live[k] - 1 ELSE sub.live[k]]]

\* Mutant of subscribeToRequests: the closer of the new subscription is
\* not stored.
subscribeToRequestsUnstored(key, sub) == [sub EXCEPT !.live[key] = @ + 1]

\* Mutant of subscribeToRequests: the subscription held under the key is
\* not closed before its closer is overwritten.
subscribeToRequestsKeeping(key, sub) ==
    [map |-> [sub.map EXCEPT ![key] = "open"], live |-> [sub.live EXCEPT ![key] = @ + 1]]

\* subscribeToRequests(relays): pool.subscribeMany opens a subscription, the
\* one held under the same key is closed, the new closer is stored.
subscribeToRequests(key, sub) ==
    LET opened == [sub EXCEPT !.live[key] = @ + 1]
        closed == IF sub.map[key] # "none" THEN CloseEntry(opened, key) ELSE opened
    IN  [closed EXCEPT !.map[key] = "open"]

\* Mutant of refreshSubscriptions: the closers are dropped without being
\* called.
refreshSubscriptionsKeeping(sub) ==
    subscribeToRequests(AllRelays, [map |-> [k \in SubKeys |-> "none"], live |-> sub.live])

\* refreshSubscriptions
refreshSubscriptions(sub) ==
    subscribeToRequests(AllRelays, [map |-> [k \in SubKeys |-> "none"], live |-> CloseAll(sub).live])

\* The for loop of the heartbeat callback from position k on, with the
\* counters ra and the active relays act as they are when it runs: each
\* relay that is not active gets reconnectToRelay called, and the loop waits
\* at the first call that goes as far as ensureRelay.
RECURSIVE checkRelays(_, _, _)
checkRelays(k, ra, act) ==
    IF k > Len(RelayOrder)
    THEN [attempts |-> ra, awaits |-> Null]
    ELSE LET r == RelayOrder[k]
             called == [ra EXCEPT ![r] = Counted(@)]
         IN  IF r \in act THEN checkRelays(k + 1, ra, act)
             ELSE IF GivesUp(called[r]) THEN checkRelays(k + 1, called, act)
             ELSE [attempts |-> called, awaits |-> r]

\* The handler is constructed; any relay may be out of reach at any time.
PoolInit ==
    /\ allowedPubkey = NoKey
    /\ relayStore = {}
    /\ Memory
    /\ deliveries = 0
    /\ restarts = 0
    /\ flaky = Relays
    /\ Constructed
    /\ ParserIdle
    /\ RetryIdle
    /\ ToolIdle

\* The same with one relay that may be out of reach.
OneFlakyInit ==
    /\ allowedPubkey = NoKey
    /\ relayStore = {}
    /\ Memory
    /\ deliveries = 0
    /\ restarts = 0
    /\ flaky = {"ra"}
    /\ Constructed
    /\ ParserIdle
    /\ RetryIdle
    /\ ToolIdle

\* connectToRelays: ensureRelay of the relay at connectIdx settles.
StartConnect(ok) ==
    /\ startPc = "connect"
    /\ ok \in EnsureOutcomes(RelayOrder[connectIdx])
    /\ LET r == RelayOrder[connectIdx]
       IN  IF ok
           THEN /\ activeRelays' = activeRelays \cup {r}
                /\ connected' = connected \cup {r}
                /\ UNCHANGED timers
           ELSE /\ timers' = [timers EXCEPT ![r] = @ + 1]
                /\ UNCHANGED <<activeRelays, connected>>
    /\ connectIdx' = connectIdx + 1
    /\ startPc' = IF connectIdx = Len(RelayOrder) THEN "load" ELSE "connect"
    /\ UNCHANGED <<flaky, reconnectAttempts, timerAttempts, tickAttempts, heartbeatInterval,
                   subscriptions, liveSubs, stopped, consecFails, idle>>
    /\ UNCHANGED <<pipelineRest, codecVars, retryVars, toolVars>>

\* publishHandlerAd settles either way; subscribeToRequests() opens the
\* subscription over all relays and startHeartbeat() sets the interval.
StartHeartbeat ==
    /\ startPc = "ad"
    /\ startPc' = "started"
    /\ LET sub == subscribeToRequests(AllRelays, Subs)
       IN  /\ subscriptions' = sub.map
           /\ liveSubs' = sub.live
    /\ heartbeatInterval' = TRUE
    /\ UNCHANGED <<flaky, connectIdx, reconnectAttempts, activeRelays, connected, timers,
                   timerAttempts, tickAttempts, stopped, consecFails, idle>>
    /\ UNCHANGED <<pipelineRest, codecVars, retryVars, toolVars>>

\* A reconnect timer fires: reconnectToRelay(r) up to its await.
TimerFires(r) ==
    /\ timers[r] > 0
    /\ timers' = [timers EXCEPT ![r] = @ - 1]
    /\ reconnectAttempts' = [reconnectAttempts EXCEPT ![r] = Counted(@)]
    /\ timerAttempts' = IF GivesUp(Counted(reconnectAttempts[r]))
                        THEN timerAttempts
                        ELSE [timerAttempts EXCEPT ![r] = @ + 1]
    /\ UNCHANGED <<flaky, connectIdx, activeRelays, connected, tickAttempts, heartbeatInterval,
                   subscriptions, liveSubs, stopped, consecFails, idle>>
    /\ UNCHANGED <<pipelineVars, codecVars, retryVars, toolVars>>

\* reconnectToRelay(r) after its await: ensureRelay resolved (ok) or
\* rejected.  An attempt a heartbeat tick awaits (fromTick) lets the loop of
\* that tick go on with the relays after r.
AttemptDone(r, ok, fromTick) ==
    LET ra == IF ok THEN [reconnectAttempts EXCEPT ![r] = 0] ELSE reconnectAttempts
        act == IF ok THEN activeRelays \cup {r} ELSE activeRelays \ {r}
        sub == IF ok THEN subscribeToRequests(Only(r), Subs) ELSE Subs
        loop == IF fromTick THEN checkRelays(Index(r) + 1, ra, act)
                ELSE [attempts |-> ra, awaits |-> Null]
        left == IF fromTick THEN [tickAttempts EXCEPT ![r] = @ - 1] ELSE tickAttempts
    IN  /\ ok \in EnsureOutcomes(r)
        /\ loop.awaits # Null => Pending(loop.awaits) < MaxPending
        /\ reconnectAttempts' = loop.attempts
        /\ activeRelays' = act
        /\ connected' = IF ok THEN connected \cup {r} ELSE connected \ {r}
        /\ subscriptions' = sub.map
        /\ liveSubs' = sub.live
        /\ timers' = IF ok THEN timers ELSE [timers EXCEPT ![r] = @ + 1]
        /\ consecFails' = [consecFails EXCEPT ![r] = IF ok THEN 0 ELSE Counted(@)]
        /\ timerAttempts' = IF fromTick THEN timerAttempts ELSE [timerAttempts EXCEPT ![r] = @ - 1]
        /\ tickAttempts' = IF loop.awaits # Null
                           THEN [left EXCEPT ![loop.awaits] = @ + 1]
                           ELSE left
        /\ UNCHANGED <<flaky, connectIdx, heartbeatInterval, stopped, idle>>
        /\ UNCHANGED <<pipelineVars, codecVars, retryVars, toolVars>>

TimerAttemptDone(r, ok) == timerAttempts[r] > 0 /\ AttemptDone(r, ok, FALSE)
TickAttemptDone(r, ok) == tickAttempts[r] > 0 /\ AttemptDone(r, ok, TRUE)

\* The heartbeat callback up to its first await.  stale is what the test of
\* lastEventTime against SUBSCRIPTION_TIMEOUT gives; after a refresh
\* lastEventTime is the time of the tick.
HeartbeatTick(stale) ==
    /\ heartbeatInterval
    /\ idle' = IF stale THEN FALSE ELSE idle
    /\ LET sub == IF stale THEN refreshSubscriptions(Subs) ELSE Subs
           loop == checkRelays(1, reconnectAttempts, activeRelays)
       IN  /\ loop.awaits # Null => Pending(loop.awaits) < MaxPending
           /\ subscriptions' = sub.map
           /\ liveSubs' = sub.live
           /\ reconnectAttempts' = loop.attempts
           /\ tickAttempts' = IF loop.awaits # Null
                              THEN [tickAttempts EXCEPT ![loop.awaits] = @ + 1]
                              ELSE tickAttempts
    /\ UNCHANGED <<flaky, connectIdx, activeRelays, connected, timers, timerAttempts,
                   heartbeatInterval, stopped, consecFails>>
    /\ UNCHANGED <<pipelineVars, codecVars, retryVars, toolVars>>

\* stop()
Stop ==
    /\ ~stopped
    /\ stopped' = TRUE
    /\ heartbeatInterval' = FALSE
    /\ LET sub == CloseAll(Subs)
       IN  /\ subscriptions' = sub.map
           /\ liveSubs' = sub.live
    /\ reconnectAttempts' = [r \in Relays |-> 0]
    /\ consecFails' = [r \in Relays |-> 0]
    /\ activeRelays' = {}
    /\ connected' = {}
    /\ UNCHANGED <<flaky, connectIdx, timers, timerAttempts, tickAttempts, idle>>
    /\ UNCHANGED <<pipelineVars, codecVars, retryVars, toolVars>>

PoolNext ==
    \/ \E ok \in BOOLEAN : StartConnect(ok)
    \/ LoadProcessedEvents
    \/ StartHeartbeat
    \/ \E r \in Relays : TimerFires(r)
    \/ \E r \in Relays, ok \in BOOLEAN : TimerAttemptDone(r, ok)
    \/ \E r \in Relays, ok \in BOOLEAN : TickAttemptDone(r, ok)
    \/ \E stale \in BOOLEAN : HeartbeatTick(stale)
    \/ Stop

PoolSpec == PoolInit /\ [][PoolNext]_vars

\* The timers fire, every ensureRelay settles and the interval keeps
\* ticking while it is set; one relay may be out of reach.
PoolFairSpec ==
    /\ OneFlakyInit
    /\ [][PoolNext]_vars
    /\ WF_vars(\E r \in Relays : TimerFires(r))
    /\ WF_vars(\E r \in Relays, ok \in BOOLEAN : TimerAttemptDone(r, ok))
    /\ WF_vars(\E r \in Relays, ok \in BOOLEAN : TickAttemptDone(r, ok))
    /\ WF_vars(\E stale \in BOOLEAN : HeartbeatTick(stale))

\* ------------------------------------------- the engine with its relays
\* The heartbeat callback with the clock followed: the test of lastEventTime
\* gives what the clock says.
WatchdogTick == HeartbeatTick(idle)

\* Time goes by without an event until now - lastEventTime is past
\* SUBSCRIPTION_TIMEOUT.
ThresholdPassed ==
    /\ ~idle
    /\ idle' = TRUE
    /\ UNCHANGED <<pipelineVars, poolRest, codecVars, retryVars, toolVars>>

\* subscribeToRequests.onevent, called by the pool for an event that comes
\* in on any subscription it holds open: lastEventTime is set, then the
\* event is taken or skipped.
OnEvent(e) ==
    /\ \E k \in SubKeys : liveSubs[k] > 0
    /\ deliveries < MaxDeliveries
    /\ deliveries' = deliveries + 1
    /\ idle' = FALSE
    /\ IF Accepts(e)
       THEN /\ acceptedLog' = Append(acceptedLog, e.id)
            /\ processNextRequest(Append(requestQueue, e), isProcessing, workers, processedEvents)
       ELSE UNCHANGED <<acceptedLog, requestQueue, isProcessing, workers, processedEvents, dequeuedLog>>
    /\ UNCHANGED <<poolRest, codecVars, retryVars, toolVars>>
    /\ UNCHANGED <<allowedPubkey, relayStore, startPc, seeded, inferenceCalls, restarts>>

\* The relays hold the result of an earlier run for r1; ra may be out of
\* reach.
SeedInit ==
    /\ allowedPubkey = NoKey
    /\ relayStore = {PriorResult("r1")}
    /\ Memory
    /\ deliveries = 0
    /\ restarts = 0
    /\ flaky = {"ra"}
    /\ Constructed
    /\ ParserIdle
    /\ RetryIdle
    /\ ToolIdle

\* What comes in while the engine runs: the request the relays hold a
\* result for.
Arrivals == {E1}

\* The engine from start() to stop() with events coming in; the awaits of
\* the jobs taken up stay pending.
EngineNext ==
    \/ \E ok \in BOOLEAN : StartConnect(ok)
    \/ LoadProcessedEvents
    \/ StartHeartbeat
    \/ \E r \in Relays : TimerFires(r)
    \/ \E r \in Relays, ok \in BOOLEAN : TimerAttemptDone(r, ok)
    \/ \E r \in Relays, ok \in BOOLEAN : TickAttemptDone(r, ok)
    \/ WatchdogTick
    \/ ThresholdPassed
    \/ \E e \in Arrivals : OnEvent(e)
    \/ Stop

EngineSpec == SeedInit /\ [][EngineNext]_vars

\* The connection to a relay is lost; the pool calls nothing of the
\* handler.
ConnectionLost(r) ==
    /\ r \in connected
    /\ connected' = connected \ {r}
    /\ UNCHANGED <<flaky, connectIdx, reconnectAttempts, activeRelays, timers, timerAttempts,
                   tickAttempts, heartbeatInterval, subscriptions, liveSubs, stopped,
                   consecFails, idle>>
    /\ UNCHANGED <<pipelineVars, codecVars, retryVars, toolVars>>

LossNext ==
    \/ \E ok \in BOOLEAN : StartConnect(ok)
    \/ LoadProcessedEvents
    \/ StartHeartbeat
    \/ \E r \in Relays : TimerFires(r)
    \/ \E r \in Relays, ok \in BOOLEAN : TimerAttemptDone(r, ok)
    \/ \E r \in Relays, ok \in BOOLEAN : TickAttemptDone(r, ok)
    \/ \E stale \in BOOLEAN : HeartbeatTick(stale)
    \/ \E r \in Relays : ConnectionLost(r)
    \/ Stop

\* The endpoint pool with connections that may drop; ra may be out of reach.
LossSpec == OneFlakyInit /\ [][LossNext]_vars

\* ------------------------------------------------------------- start()
\* await Promise.all(relays.map(querySync)) of loadProcessedEvents settles;
\* rejected are the relays whose query rejected.  Nothing catches the
\* rejection: start() rejects and main's catch calls process.exit(1).
SeedQueried(rejected) ==
    /\ startPc = "load"
    /\ IF rejected = {}
       THEN LET requestIds == {RequestIdOf(r) : r \in {m \in querySync(SeedKind) : RequestIdOf(m) # Null}}
            IN  /\ startPc' = "ad"
                /\ processedEvents' = processedEvents \cup requestIds
                /\ seeded' = requestIds
       ELSE /\ startPc' = "aborted"
            /\ UNCHANGED <<processedEvents, seeded>>
    /\ UNCHANGED outsidePipeline
    /\ UNCHANGED <<allowedPubkey, relayStore, requestQueue, isProcessing,
                   workers, inferenceCalls, acceptedLog, dequeuedLog, deliveries, restarts>>

\* The process is gone.
Exited == startPc = "aborted"

\* start() with every await free to resolve or reject, and the reconnects
\* and heartbeat that follow from it, until the process exits.
StartNext ==
    \/ ~Exited /\ \E ok \in BOOLEAN : StartConnect(ok)
    \/ \E rejected \in SUBSET Relays : SeedQueried(rejected)
    \/ StartHeartbeat
    \/ ~Exited /\ \E r \in Relays : TimerFires(r)
    \/ ~Exited /\ \E r \in Relays, ok \in BOOLEAN : TimerAttemptDone(r, ok)
    \/ ~Exited /\ \E r \in Relays, ok \in BOOLEAN : TickAttemptDone(r, ok)
    \/ \E stale \in BOOLEAN : HeartbeatTick(stale)

StartSpec == SeedInit /\ [][StartNext]_vars

\* ------------------------------------------------------- parseJobRequest
\* The events parseJobRequest is applied to: every choice of kind, input
\* tag, encrypted marker and model / temperature / max_tokens / top_p
\* parameter below.
ParseKinds == {JOB_REQUEST_KIND, JOB_RESULT, JOB_FEEDBACK}
InputTags == {<<>>, << <<"i", "2+2?", "text">> >>, << <<"i">> >>}
EncryptedTags == {<<>>, << <<"encrypted">> >>}
ModelTags == {<<>>, << <<"param", "model", "gemma-7b-it">> >>,
              << <<"param", "model", "gpt-4">> >>, << <<"param", "model">> >>}
TemperatureTags == {<<>>, << <<"param", "temperature", "0.5">> >>,
                    << <<"param", "temperature", "hot">> >>}
MaxTokensTags == {<<>>, << <<"param", "max_tokens", "256">> >>}
TopPTags == {<<>>, << <<"param", "top_p", "0.5">> >>}
ParseInputs ==
    {[id |-> "r1", pubkey |-> "u1", kind |-> k, content |-> "",
      tags |-> i \o m \o t \o x \o p \o c] :
        k \in ParseKinds, i \in InputTags, c \in EncryptedTags, m \in ModelTags,
        t \in TemperatureTags, x \in MaxTokensTags, p \in TopPTags}

ParseInit ==
    /\ allowedPubkey = NoKey
    /\ relayStore = {}
    /\ Memory
    /\ deliveries = 0
    /\ restarts = 0
    /\ flaky = {}
    /\ Constructed
    /\ parseInput \in ParseInputs
    /\ parseOutput = NotParsed
    /\ RetryIdle
    /\ ToolIdle

\* parseJobRequest(parseInput) is called and returns.
Parse ==
    /\ parseOutput = NotParsed
    /\ parseOutput' = parseJobRequest(parseInput)
    /\ UNCHANGED <<parseInput, pipelineVars, poolVars, retryVars, toolVars>>

\* The next event is taken up.
NextEvent ==
    /\ parseOutput # NotParsed
    /\ parseInput' \in ParseInputs
    /\ parseOutput' = NotParsed
    /\ UNCHANGED <<pipelineVars, poolVars, retryVars, toolVars>>

ParseNext == Parse \/ NextEvent

ParseSpec == ParseInit /\ [][ParseNext]_vars

\* ----------------------------------------------------- the retry helper
\* The publishes the handler wraps in retry.
RetrySteps == {"processing", "result", "success", "error"}
AttemptLimits == 1 .. maxAttempts

\* Error messages are kept as the pieces they are made of, so that
\* String.prototype.includes is a search for a piece.
includes(message, piece) == \E k \in DOMAIN message : message[k] = piece

\* What an invocation of the operation can reject with: errors with a
\* message, with the marker at the start or inside, and a rejection that
\* has no message property.
OperationErrors ==
    {[message |-> <<"connection failed">>],
     [message |-> <<"timed out">>],
     [message |-> <<"rate-limit", "ed: slow down">>],
     [message |-> <<"blocked: ", "rate-limit", " exceeded">>],
     [reason |-> "closed"]}
OperationOutcomes ==
    {[ok |-> TRUE, value |-> v] : v \in {"v1", "v2"}}
        \cup {[ok |-> FALSE, error |-> e] : e \in OperationErrors}

\* Math.random(), in thousandths.
Randoms == {0, 500, 999}

\* error.message?.includes('rate-limit')
isRateLimit(error) == "message" \in DOMAIN error /\ includes(error.message, "rate-limit")

\* Mutant of waitTime: the exponent is one less.
waitTimeHalved(error, attempt, base, random) ==
    IF isRateLimit(error)
    THEN (base * 2 ^ (attempt - 1) * (1000 + random)) \div 1000
    ELSE base

\* waitTime of the catch block.
waitTime(error, attempt, base, random) ==
    IF isRateLimit(error)
    THEN (base * 2 ^ attempt * (1000 + random)) \div 1000
    ELSE base

\* Mutant of Exhausted: one more attempt is made.
ExhaustedLate(attempt, limit) == attempt = limit + 1

\* if (attempt === maxAttempts) break
Exhausted(attempt, limit) == attempt = limit

\* Mutant of Caught: the first error is the one kept.
CaughtFirst(lastError, error) == IF lastError = Undefined THEN error ELSE lastError

\* lastError = error
Caught(lastError, error) == error

\* handleJobRequest of the retry revision after await retry(...) for the
\* publish of step settled: the next await of the try block, the catch
\* block, or out of the function.
AfterRetry(step, ok) ==
    CASE step = "processing" -> IF ok THEN "inference" ELSE "errDelay"
      [] step = "result" -> IF ok THEN "delaySuccess" ELSE "errDelay"
      [] step = "success" -> IF ok THEN "returned" ELSE "errDelay"
      [] step = "error" -> IF ok THEN "returned" ELSE "threw"

\* The loop of retry at the top of an iteration: the operation is invoked
\* and awaited.
Invoked(c) == [c EXCEPT !.attempt = @ + 1, !.pc = "calling"]

RetryInit ==
    /\ allowedPubkey = NoKey
    /\ relayStore = {}
    /\ Memory
    /\ deliveries = 0
    /\ restarts = 0
    /\ flaky = {}
    /\ Constructed
    /\ ParserIdle
    /\ retryCall \in {NewCall(step, limit, baseDelay) : step \in RetrySteps, limit \in AttemptLimits}
    /\ ToolIdle

\* retry(operation) is called: the first iteration invokes the operation.
RetryCalled ==
    /\ retryCall.pc = "idle"
    /\ retryCall' = Invoked(retryCall)
    /\ UNCHANGED <<pipelineVars, poolVars, codecVars, toolVars>>

\* await operation() settles: the value is returned, or the catch block
\* runs as far as the break or the await of the delay.
OperationSettled(out, random) ==
    /\ retryCall.pc = "calling"
    /\ LET c == [retryCall EXCEPT !.invoked = Append(@, out)]
       IN  retryCall' =
             IF out.ok
             THEN [c EXCEPT !.pc = "returned",
                            !.settled = [value |-> out.value],
                            !.callerPc = AfterRetry(c.step, TRUE)]
             ELSE LET e == Caught(c.lastError, out.error)
                  IN  IF Exhausted(c.attempt, c.maxAttempts)
                      THEN [c EXCEPT !.lastError = e,
                                     !.pc = "threw",
                                     !.settled = [error |-> e],
                                     !.callerPc = AfterRetry(c.step, FALSE)]
                      ELSE [c EXCEPT !.lastError = e,
                                     !.pc = "waiting",
                                     !.waits = Append(@, waitTime(out.error, c.attempt,
                                                                  c.baseDelay, random))]
    /\ UNCHANGED <<pipelineVars, poolVars, codecVars, toolVars>>

\* await delay(waitTime) elapses: the next iteration invokes the operation.
DelayElapsed ==
    /\ retryCall.pc = "waiting"
    /\ retryCall' = Invoked(retryCall)
    /\ UNCHANGED <<pipelineVars, poolVars, codecVars, toolVars>>

\* The next call of retry is followed.
NextCall ==
    /\ retryCall.pc \in {"returned", "threw"}
    /\ retryCall' \in {NewCall(step, limit, baseDelay) : step \in RetrySteps, limit \in AttemptLimits}
    /\ UNCHANGED <<pipelineVars, poolVars, codecVars, toolVars>>

RetryNext ==
    \/ RetryCalled
    \/ \E out \in OperationOutcomes, random \in Randoms : OperationSettled(out, random)
    \/ DelayElapsed
    \/ NextCall

RetrySpec == RetryInit /\ [][RetryNext]_vars

\* ------------------------------------------------- the chat_completion tool
ToolNames == {"chat_completion", "list_models"}
MessagesArguments ==
    {Absent, String("hello"), Value("array", "[]", 0),
     Value("array", "[{role: user, content: hi}]", 1)}
ModelArguments == {Absent, String(""), String("llama3-8b-8192"), String("gpt-4")}
TemperatureArguments == {Absent, Number("0.2"), String("0.2")}
MaxTokensArguments == {Absent, Number("256"), String("256")}
TopPArguments == {Absent, Number("0.5")}
ToolArguments ==
    [messages : MessagesArguments, model : ModelArguments, temperature : TemperatureArguments,
     max_tokens : MaxTokensArguments, top_p : TopPArguments]
ToolRequests == {NewToolCall(name, args) : name \in ToolNames, args \in ToolArguments}

\* What groq.chat.completions.create settles with: a completion with one
\* choice or with none, a rejection with an Error, a rejection with
\* something that is no Error.
ApiOutcomes ==
    {[resolved |-> TRUE, choices |-> <<"4">>, isError |-> FALSE, message |-> ""],
     [resolved |-> TRUE, choices |-> <<>>, isError |-> FALSE, message |-> ""],
     [resolved |-> FALSE, choices |-> <<>>, isError |-> TRUE, message |-> "rate limited"],
     [resolved |-> FALSE, choices |-> <<>>, isError |-> FALSE, message |-> "closed"]}

\* !x for the values an argument can have.
Falsy(v) ==
    \/ v.type = "undefined"
    \/ v.type = "string" /\ v.text = ""
    \/ v = False

\* !Array.isArray(args.messages) || !args.messages.length
BadMessages(v) == v.type # "array" \/ v.length = 0

\* Mutant of Substituted: the default is taken whatever the argument is.
SubstitutedAlways(v, default) == default

\* typeof v === 'number' ? v : default
Substituted(v, default) == IF v.type = "number" THEN v ELSE default

\* The object handed to groq.chat.completions.create.
CompletionParams(args) ==
    [messages |-> args.messages,
     model |-> args.model,
     temperature |-> Substituted(args.temperature, Number("0.7")),
     max_tokens |-> Substituted(args.max_tokens, Number("1024")),
     top_p |-> Substituted(args.top_p, Number("1")),
     stream |-> False]

Thrown(text) == [kind |-> "error", text |-> text]
Returned(text) == [kind |-> "content", text |-> <<text>>]

ToolInit ==
    /\ allowedPubkey = NoKey
    /\ relayStore = {}
    /\ Memory
    /\ deliveries = 0
    /\ restarts = 0
    /\ flaky = {}
    /\ Constructed
    /\ ParserIdle
    /\ RetryIdle
    /\ toolCall \in ToolRequests

\* The handler runs from its first line to a throw or to the await of
\* groq.chat.completions.create.
ToolCalled ==
    /\ toolCall.pc = "idle"
    /\ LET args == toolCall.arguments
       IN  toolCall' =
             IF toolCall.name # "chat_completion"
             THEN [toolCall EXCEPT !.pc = "threw", !.outcome = Thrown(<<"Unknown tool">>)]
             ELSE IF BadMessages(args.messages)
             THEN [toolCall EXCEPT !.pc = "threw",
                                   !.outcome = Thrown(<<"Messages must be a non-empty array">>)]
             ELSE IF Falsy(args.model)
             THEN [toolCall EXCEPT !.pc = "threw", !.outcome = Thrown(<<"Model is required">>)]
             ELSE [toolCall EXCEPT !.pc = "calling",
                                   !.calls = Append(@, CompletionParams(args))]
    /\ UNCHANGED <<pipelineVars, poolVars, codecVars, retryVars>>

\* await groq.chat.completions.create(...) settles: the text of the first
\* choice is returned, or the catch block throws its own Error; reading
\* choices[0].message of a completion without choices is a TypeError inside
\* the try.
ApiSettled(out) ==
    /\ toolCall.pc = "calling"
    /\ toolCall' =
          IF out.resolved /\ out.choices # <<>>
          THEN [toolCall EXCEPT !.pc = "returned", !.outcome = Returned(out.choices[1])]
          ELSE IF out.resolved
          THEN [toolCall EXCEPT !.pc = "threw",
                                !.outcome = Thrown(<<"Groq API error: ", "TypeError">>)]
          ELSE IF out.isError
          THEN [toolCall EXCEPT !.pc = "threw",
                                !.outcome = Thrown(<<"Groq API error: ", out.message>>)]
          ELSE [toolCall EXCEPT !.pc = "threw",
                                !.outcome = Thrown(<<"Groq API error: An unknown error occurred">>)]
    /\ UNCHANGED <<pipelineVars, poolVars, codecVars, retryVars>>

\* The next request comes in.
NextRequest ==
    /\ toolCall.pc \in {"returned", "threw"}
    /\ toolCall' \in ToolRequests
    /\ UNCHANGED <<pipelineVars, poolVars, codecVars, retryVars>>

ToolNext ==
    \/ ToolCalled
    \/ \E out \in ApiOutcomes : ApiSettled(out)
    \/ NextRequest

ToolSpec == ToolInit /\ [][ToolNext]_vars

\* ------------------------------------------------------------- properties
Range(f) == {f[i] : i \in DOMAIN f}
Count(f, x) == Cardinality({i \in DOMAIN f : f[i] = x})
IsPrefix(a, b) == Len(a) <= Len(b) /\ SubSeq(b, 1, Len(a)) = a

\* What a published event is: "result", or the status of a feedback.
Label(m) ==
    LET tag == Find(m.tags, Tagged(m.tags, "status"))
    IN  IF tag = NoTag THEN "result" ELSE At(tag, 1)
Shape(w) == [k \in DOMAIN w.msgs |-> Label(w.msgs[k])]
TagValue(m, name) ==
    LET tag == Find(m.tags, Tagged(m.tags, name))
    IN  IF tag = NoTag THEN Null ELSE At(tag, 1)

OnSuccess == <<"processing", "result", "success">>
OnFailure == <<"processing", "error">>

\* C1: at most one job is between its dequeue and the end of its pacing
\* delay, and at most one inference call is outstanding, at any time.
C1_MutualExclusion ==
    /\ Len(workers) <= 1
    /\ Cardinality({i \in DOMAIN workers : workers[i].pc = "inference"}) <= 1
    /\ isProcessing <=> Len(workers) = 1

\* C1 witness: two more distinct jobs wait while the inference call of a
\* third is outstanding.
C1_Witness ==
    /\ Len(workers) = 1
    /\ workers[1].pc = "inference"
    /\ Len(requestQueue) = 2
    /\ Cardinality({workers[1].event.id, requestQueue[1].id, requestQueue[2].id}) = 3

\* C2: an identifier is accepted into the queue at most once, and the
\* inference collaborator is invoked at most once for it, however often and
\* whenever the request is delivered.
C2_Idempotent ==
    \A id \in JobIds : Count(acceptedLog, id) <= 1 /\ inferenceCalls[id] <= 1

\* C3 as claimed: the messages of a job that parses form exactly
\* [processing, result, success] or [processing, error] once the job has
\* settled, whatever the outcome of the inference call and of each publish.
C3_ExactSequences ==
    \A i \in DOMAIN workers :
        (workers[i].pc = "pacing" /\ workers[i].request # Invalid)
            => Shape(workers[i]) \in {OnSuccess, OnFailure}

\* C3 as amended: the messages of a job that parses are, in order, an
\* initial part of [processing, result, success] followed by at most one
\* error feedback, which is there only when a step failed; when every publish
\* was taken by all relays the settled job has published exactly [processing,
\* result, success] if its inference call succeeded and exactly
\* [processing, error] if it failed.
C3_OrderedSequences ==
    \A i \in DOMAIN workers :
        LET w == workers[i]
            shape == Shape(w)
        IN  w.request # Invalid =>
              /\ \/ IsPrefix(shape, OnSuccess)
                 \/ /\ shape # <<>>
                    /\ shape[Len(shape)] = "error"
                    /\ IsPrefix(SubSeq(shape, 1, Len(shape) - 1), OnSuccess)
                    /\ w.error # Null
              /\ (w.pc = "pacing" /\ w.pubOk /\ w.inference = "ok") => shape = OnSuccess
              /\ (w.pc = "pacing" /\ w.pubOk /\ w.inference = "failed") => shape = OnFailure
              /\ (w.pc = "pacing" /\ w.pubOk) => w.inference # "none"

\* C3 witness: a settled job whose success feedback was refused after its
\* result went out, and which then published error feedback.
C3_Witness ==
    \E i \in DOMAIN workers :
        /\ workers[i].pc = "pacing"
        /\ Shape(workers[i]) = <<"processing", "result", "error">>

\* C4: when the inference call of a job fails, the settling of that job does
\* not put its identifier into the processed set.
C4_FailureNotMarked ==
    [][\A i \in DOMAIN workers :
          (/\ workers[i].inference = "failed"
           /\ workers[i].pc # "pacing"
           /\ workers[i].event.id \notin processedEvents
           /\ i \in DOMAIN workers'
           /\ workers'[i].pc = "pacing")
              => workers[i].event.id \notin processedEvents']_vars

\* C5: an identifier the startup seed found is never queued, never reaches a
\* worker (so nothing is published for it) and never reaches inference, in
\* the lifetime that seed belongs to.
C5_SeededDropped ==
    \A id \in seeded :
        /\ id \in processedEvents
        /\ id \notin Range(acceptedLog)
        /\ \A k \in DOMAIN requestQueue : requestQueue[k].id # id
        /\ \A i \in DOMAIN workers : workers[i].event.id # id
        /\ inferenceCalls[id] = 0

\* C5 witness: with no allow-list, the seed found r1 and r2, two events were
\* delivered and nothing was accepted: r3 would have been, so both
\* deliveries were of seeded identifiers.
C5_Witness ==
    /\ allowedPubkey = NoKey
    /\ restarts = 0
    /\ startPc = "started"
    /\ seeded = {"r1", "r2"}
    /\ deliveries = 2
    /\ acceptedLog = <<>>
    /\ processedEvents = seeded

\* C6: with an allow-list identity configured, an event of another
\* requester is never in the queue and never reaches a worker or the
\* inference collaborator, nothing published carries its requester, and its
\* delivery leaves the queue, the processed set, the processing flag, the
\* workers and the relays as they were.
C6_UnauthorizedDropped ==
    /\ [](allowedPubkey # NoKey =>
            /\ \A k \in DOMAIN requestQueue : requestQueue[k].pubkey = allowedPubkey
            /\ \A i \in DOMAIN workers :
                 /\ workers[i].event.pubkey = allowedPubkey
                 /\ \A k \in DOMAIN workers[i].msgs :
                      TagValue(workers[i].msgs[k], "p") = allowedPubkey
            /\ \A e \in Events :
                 e.pubkey # allowedPubkey =>
                    inferenceCalls[e.id] = 0 /\ e.id \notin Range(acceptedLog))
    /\ [][\A e \in Events :
            (allowedPubkey # NoKey /\ e.pubkey # allowedPubkey /\ Deliver(e))
               => UNCHANGED <<requestQueue, processedEvents, isProcessing, workers,
                              inferenceCalls, acceptedLog, dequeuedLog, relayStore>>]_vars

\* C6 witness: the allow-list is u1, nothing was seeded or processed, an
\* event was delivered and nothing was accepted: r1 and r3 are u1's and
\* would have been, so the delivery was of u2's event.
C6_Witness ==
    /\ allowedPubkey = "u1"
    /\ restarts = 0
    /\ startPc = "started"
    /\ deliveries >= 1
    /\ processedEvents = {}
    /\ acceptedLog = <<>>

\* C7: every result the engine publishes has the kind the seed queries for,
\* so that right after the seed every result the relays hold of this engine
\* has its request identifier in the processed set.
C7_ConsistentKinds ==
    /\ startPc = "ad" => \A m \in relayStore : RequestIdOf(m) \in processedEvents
    /\ \A i \in DOMAIN workers : \A k \in DOMAIN workers[i].msgs :
          Label(workers[i].msgs[k]) = "result" => workers[i].msgs[k].kind = SeedKind

\* C8: jobs are dequeued in the order in which they were accepted: what was
\* accepted is what was dequeued followed by what is still queued.
C8_Fifo ==
    acceptedLog = dequeuedLog \o [k \in DOMAIN requestQueue |-> requestQueue[k].id]

\* C8 witness: two distinct jobs were dequeued one after the other while a
\* third waits.
C8_Witness ==
    /\ Len(dequeuedLog) = 2
    /\ dequeuedLog[1] # dequeuedLog[2]
    /\ Len(requestQueue) = 1
    /\ requestQueue[1].id \notin Range(dequeuedLog)

\* C9: with no allow-list, a job whose inference returned text T and whose
\* publishes all succeeded has published, in order, feedback(processing), a
\* result with content T and feedback(success), each with the request's
\* identifier in its e tag and the requester in its p tag, and its
\* identifier is in the processed set.
C9_SuccessScenario ==
    \A i \in DOMAIN workers :
        LET w == workers[i]
            ref == << <<"e", w.event.id>>, <<"p", w.event.pubkey>> >>
        IN  (/\ allowedPubkey = NoKey
             /\ w.pc = "pacing"
             /\ w.inference = "ok"
             /\ w.content # Null
             /\ w.pubOk)
            => /\ Len(w.msgs) = 3
               /\ w.msgs[1].tags = ref \o << <<"status", "processing", "">> >>
               /\ SubSeq(w.msgs[2].tags, 1, 2) = ref
               /\ Label(w.msgs[2]) = "result"
               /\ w.msgs[2].content = w.content
               /\ w.msgs[3].tags = ref \o << <<"status", "success", "">> >>
               /\ w.event.id \in processedEvents

\* C9 witness: r1 of u1, inference returned "4", every publish succeeded.
C9_Witness ==
    /\ allowedPubkey = NoKey
    /\ Len(workers) = 1
    /\ workers[1].event = E1
    /\ workers[1].pc = "pacing"
    /\ workers[1].inference = "ok"
    /\ workers[1].content = "4"
    /\ workers[1].pubOk

\* C10: whenever jobs were accepted that are not yet dequeued, a time comes
\* when every accepted job has been dequeued, whatever became of the jobs
\* ahead of them (the logs only grow, so this is every accepted job being
\* dequeued eventually); and the queue is never non-empty with no job in
\* processing (the dispatch that would take its head is never lost).
C10_NoJobLost ==
    /\ (Len(acceptedLog) > Len(dequeuedLog)) ~> (Len(acceptedLog) = Len(dequeuedLog))
    /\ [](requestQueue # <<>> => (isProcessing /\ workers # <<>>))

\* C10 witness: a job waits behind one whose inference failed and whose
\* error feedback was refused as well.
C10_Witness ==
    /\ requestQueue # <<>>
    /\ \E i \in DOMAIN workers :
         /\ workers[i].pc = "pacing"
         /\ workers[i].inference = "failed"
         /\ Shape(workers[i]) = <<"processing">>

\* C15: an event that does not parse is never queued, never takes the
\* processing slot (so no pacing delay is spent on it), and its identifier
\* is in the processed set only if the seed put it there.  (That nothing is
\* published for it holds; the three other parts are what fails.)
C15_ParseFailedDropped ==
    \A e \in Events :
        parseJobRequest(e) = Invalid
        => /\ e.id \notin Range(acceptedLog)
           /\ \A i \in DOMAIN workers : workers[i].event # e
           /\ e.id \in processedEvents => e.id \in seeded

\* C17: a publish whose failure is treated as the failure of its step was
\* attempted maxAttempts times.
C17_PublishRetried ==
    \A i \in DOMAIN workers :
        workers[i].error = PublishRejection => workers[i].calls = maxAttempts

\* A job is completed when its success feedback was published and no step
\* of it failed.
Completed(w) ==
    /\ w.pc = "pacing"
    /\ w.error = Null
    /\ w.msgs # <<>>
    /\ Label(w.msgs[Len(w.msgs)]) = "success"

C19_Pacing ==
    [][Len(dequeuedLog') > Len(dequeuedLog)
       => \/ workers = <<>>
          \/ \E i \in DOMAIN workers : PacingDone(i)]_vars

\* C19 witness: r3 was dropped by the dispatcher in the step that dequeued
\* it, and an event delivered during its pacing delay waits in the queue.
C19_Witness ==
    /\ dequeuedLog = <<"r3">>
    /\ Len(workers) = 1
    /\ workers[1].pc = "pacing"
    /\ requestQueue # <<>>

\* C20: a job whose inference call is pending leaves that call, whether or
\* not the provider answers.
C20_InferenceBounded ==
    (\E i \in DOMAIN workers : workers[i].pc = "inference")
        ~> (\A i \in DOMAIN workers : workers[i].pc # "inference")

\* What C13 and C14 say of an event, read off its kind and tags.
HasTag(e, name) == \E i \in DOMAIN e.tags : e.tags[i][1] = name
HasParam(e, name) ==
    \E i \in DOMAIN e.tags :
        Len(e.tags[i]) >= 2 /\ e.tags[i][1] = "param" /\ e.tags[i][2] = name
AsksUnsupportedModel(e) ==
    \E i \in DOMAIN e.tags :
        /\ Len(e.tags[i]) >= 2 /\ e.tags[i][1] = "param" /\ e.tags[i][2] = "model"
        /\ ~(Len(e.tags[i]) >= 3 /\ e.tags[i][3] \in supportedModels)
Malformed(e) ==
    \/ e.kind # JOB_REQUEST_KIND
    \/ HasTag(e, "encrypted")
    \/ ~HasTag(e, "i")
    \/ AsksUnsupportedModel(e)

C14_ValidDefaults ==
    (parseOutput # NotParsed /\ ~Malformed(parseInput))
    => /\ parseOutput # Invalid
       /\ parseOutput.id = parseInput.id
       /\ parseOutput.pubkey = parseInput.pubkey
       /\ \E i \in DOMAIN parseInput.tags :
             /\ parseInput.tags[i][1] = "i"
             /\ parseOutput.input = At(parseInput.tags[i], 1)
       /\ ~HasParam(parseInput, "temperature") => parseOutput.temperature = DefaultTemperature
       /\ ~HasParam(parseInput, "max_tokens") => parseOutput.max_tokens = DefaultMaxTokens
       /\ ~HasParam(parseInput, "top_p") => parseOutput.top_p = DefaultTopP

\* C14 witness: a valid event with a max_tokens parameter and neither
\* temperature nor top_p was parsed.
C14_Witness ==
    /\ parseOutput \notin {NotParsed, Invalid}
    /\ HasParam(parseInput, "max_tokens")
    /\ ~HasParam(parseInput, "temperature")
    /\ ~HasParam(parseInput, "top_p")
    /\ parseOutput.temperature = DefaultTemperature
    /\ parseOutput.top_p = DefaultTopP

\* C11: while the engine has not been stopped, once five reconnect attempts
\* of a relay have failed in a row (no success and no reset since), no step
\* starts another ensureRelay for it.
C11_CeilingHolds ==
    [][\A r \in Relays :
          (~stopped' /\ consecFails[r] >= MAX_RECONNECT_ATTEMPTS)
          => Inflight(r)' <= Inflight(r)]_vars

\* C12 as stated: whenever a relay is not connected while the engine runs,
\* an ensureRelay for it is in flight at some later time (or it is connected
\* by then, or the engine stopped).
C12_RetriedForever ==
    \A r \in Relays :
        [](startPc = "started" /\ ~stopped /\ r \notin connected
           => <>(Inflight(r) > 0 \/ r \in connected \/ stopped))

\* C12 amended: a relay that is not marked active while the engine runs and
\* whose counter is below the ceiling gets another ensureRelay; a relay
\* whose counter has reached the ceiling gets none.
C12_RetriedToCeiling ==
    /\ \A r \in Relays :
          (/\ startPc = "started"
           /\ ~stopped
           /\ r \notin activeRelays
           /\ reconnectAttempts[r] < MAX_RECONNECT_ATTEMPTS)
          ~> (Inflight(r) > 0 \/ stopped)
    /\ [][\A r \in Relays :
            reconnectAttempts[r] >= MAX_RECONNECT_ATTEMPTS
            => Inflight(r)' <= Inflight(r)]_vars

\* C12 witness: the engine runs, ra is not active, its counter is past the
\* ceiling and neither a timer nor an attempt is left for it.
C12_Witness ==
    /\ startPc = "started"
    /\ ~stopped
    /\ "ra" \notin activeRelays
    /\ GivesUp(reconnectAttempts["ra"])
    /\ Pending("ra") = 0

\* C16: the step that is stop() leaves the interval cleared, no subscription
\* open at the pool and no connection open.
C16_Shutdown ==
    [][(stopped' /\ ~stopped)
       => /\ ~heartbeatInterval'
          /\ \A k \in SubKeys : liveSubs'[k] = 0
          /\ connected' = {}]_vars

\* C16 witness: stop() has closed the subscription over all relays and the
\* one opened for ra after its reconnect.
C16_Witness ==
    /\ stopped
    /\ subscriptions[AllRelays] = "closed"
    /\ subscriptions[Only("ra")] = "closed"
    /\ \A k \in SubKeys : liveSubs[k] = 0
    /\ connected = {}
    /\ ~heartbeatInterval

\* ------------------------------------------------ partial publishes, inference
\* C22: a job whose processing feedback was taken by at least one relay
\* goes on to its inference call, whatever the other relays answered.
C22_PartialPublishSucceeds ==
    \A i \in DOMAIN workers :
        LET w == workers[i]
        IN  (w.msgs # <<>> /\ Label(w.msgs[1]) = "processing" /\ w.pc # "pubProcessing")
                => (w.pc = "inference" \/ w.inference # "none")

\* The jobs of request id that are in processing and whose processing
\* feedback publish has not settled yet.
BeforeInference(id) ==
    {i \in DOMAIN workers :
        /\ workers[i].request # Invalid
        /\ workers[i].request.id = id
        /\ workers[i].pc = "pubProcessing"}

\* C30: the inference calls made for a request id, with the jobs of that id
\* whose call is still to come, are never more than the jobs of that id that
\* were dequeued, so no job has two calls; a call is made in the step in
\* which the job's processing feedback publish resolved, with nothing but
\* that feedback published; a job has a result or a success feedback
\* published only after its inference returned; and a job whose processing
\* feedback publish was rejected never has a call.
C30_InferenceOnce ==
    /\ [](\A id \in JobIds :
            inferenceCalls[id] + Cardinality(BeforeInference(id)) <= Count(dequeuedLog, id))
    /\ [](\A i \in DOMAIN workers :
            LET w == workers[i]
            IN  /\ w.pc = "inference" => (w.pubOk /\ Shape(w) = <<"processing">>)
                /\ (\E k \in DOMAIN w.msgs : Label(w.msgs[k]) \in {"result", "success"})
                       => w.inference = "ok"
                /\ w.inference # "none" => (Len(w.msgs) >= 1 /\ Label(w.msgs[1]) = "processing"))
    /\ [][\A id \in JobIds :
            inferenceCalls'[id] > inferenceCalls[id]
                => /\ inferenceCalls'[id] = inferenceCalls[id] + 1
                   /\ \E i \in DOMAIN workers :
                          /\ workers[i].pc = "pubProcessing"
                          /\ workers[i].request.id = id
                          /\ i \in DOMAIN workers'
                          /\ workers'[i].pc = "inference"
                          /\ workers'[i].pubOk]_vars

\* C30 witness: the inference for r1 was called once and r1 is done; r2 was
\* dequeued next, its processing feedback publish was rejected and it has
\* gone through the error path without a call.
C30_Witness ==
    /\ dequeuedLog = <<"r1", "r2">>
    /\ inferenceCalls["r1"] = 1
    /\ inferenceCalls["r2"] = 0
    /\ \E i \in DOMAIN workers :
          /\ workers[i].request.id = "r2"
          /\ workers[i].error = PublishRejection
          /\ workers[i].inference = "none"
          /\ workers[i].pc = "pacing"

\* ---------------------------------------------- one endpoint, many attempts
\* C23: for each relay at most one reconnect attempt is between its counter
\* increment and its completion, and an attempt started by a heartbeat tick
\* is never in flight together with one started by a timer.
C23_Serialized ==
    \A r \in Relays :
        /\ Inflight(r) <= 1
        /\ ~(timerAttempts[r] > 0 /\ tickAttempts[r] > 0)

\* The step in which an ensureRelay of reconnectToRelay(r) rejected and the
\* next attempt was put on a timer.
ReconnectFailed(r) == timers'[r] = timers[r] + 1 /\ Inflight(r)' < Inflight(r)

\* C26: while the engine runs, the delay scheduled when the n-th consecutive
\* connect failure of a relay happens is RECONNECT_DELAY * 2^(n-1), for n up
\* to the ceiling (so the delays of one run never decrease), whichever
\* attempts of that relay overlap.
C26_BackoffByAttempt ==
    [][\A r \in Relays :
        (~stopped /\ ReconnectFailed(r) /\ consecFails'[r] <= MAX_RECONNECT_ATTEMPTS)
            => backoffDelay(reconnectAttempts[r])
                   = RECONNECT_DELAY * 2 ^ (consecFails'[r] - 1)]_vars

\* ------------------------------------------------- seed, loss, watchdog
\* C21: an event is accepted into the queue only once start() is past
\* loadProcessedEvents.
C21_SeedBeforeAccept ==
    acceptedLog # <<>> => startPc \in {"ad", "started"}

\* C24: a heartbeat tick that finds a relay without a connection, its
\* counter not past the ceiling, starts a reconnect attempt for it, unless
\* the tick is already waiting for the attempt of a relay before it.
C24_LossNoticed ==
    [][(\E stale \in BOOLEAN : HeartbeatTick(stale))
        => \A r \in Relays :
              (r \notin connected /\ ~GivesUp(Counted(reconnectAttempts[r])))
                 => \E q \in Relays :
                       /\ Index(q) <= Index(r)
                       /\ tickAttempts'[q] = tickAttempts[q] + 1]_vars

C27_RetryInvocations ==
    LET c == retryCall
        n == Len(c.invoked)
    IN  /\ c.pc # "idle" => n >= 1 \/ c.pc = "calling"
        /\ c.pc = "calling" => n = c.attempt - 1
        /\ c.pc \in {"waiting", "returned", "threw"} => (n = c.attempt /\ n >= 1)
        /\ c.attempt <= c.maxAttempts
        /\ n <= c.maxAttempts
        /\ \A k \in 1 .. n - 1 : ~c.invoked[k].ok
        /\ c.pc = "returned" => (c.invoked[n].ok /\ c.settled = [value |-> c.invoked[n].value])
        /\ (n >= 1 /\ c.invoked[n].ok) => c.pc = "returned"

\* C27 witness: the default three attempts, two failures and then "v2".
C27_Witness ==
    /\ retryCall.maxAttempts = maxAttempts
    /\ retryCall.pc = "returned"
    /\ Len(retryCall.invoked) = 3
    /\ retryCall.settled = [value |-> "v2"]

\* C28: a call of retry that rejected made maxAttempts invocations, all of
\* which failed, and rejected with the error of the last one; the caller,
\* when the publish was one of its try block, is in its catch block on the
\* way to the error feedback.
C28_LastErrorThrown ==
    LET c == retryCall
        n == Len(c.invoked)
    IN  /\ c.pc = "threw"
            => /\ n = c.maxAttempts
               /\ \A k \in 1 .. n : ~c.invoked[k].ok
               /\ c.settled = [error |-> c.invoked[n].error]
               /\ c.step \in {"processing", "result", "success"} => c.callerPc = "errDelay"
        /\ (n = c.maxAttempts /\ \A k \in 1 .. n : ~c.invoked[k].ok) => c.pc = "threw"
        /\ c.callerPc = "errDelay" => c.pc = "threw"

\* C28 witness: three failures with three different errors, for the result
\* publish.
C28_Witness ==
    /\ retryCall.step = "result"
    /\ retryCall.pc = "threw"
    /\ Len(retryCall.invoked) = 3
    /\ retryCall.invoked[1].error # retryCall.invoked[3].error
    /\ retryCall.invoked[2].error # retryCall.invoked[3].error
    /\ retryCall.callerPc = "errDelay"

\* C29: the k-th delay of a call follows its k-th invocation, which failed
\* and was not the last one allowed; it is baseDelay when the error has no
\* rate-limit marker, and from baseDelay * 2^k up to but not including
\* 2 * baseDelay * 2^k when it has; nothing is awaited after the last
\* failure allowed.
C29_RetryWaits ==
    LET c == retryCall
        n == Len(c.invoked)
        failures == Cardinality({k \in 1 .. n : ~c.invoked[k].ok})
    IN  /\ Len(c.waits) = IF c.pc = "threw" THEN failures - 1 ELSE failures
        /\ Len(c.waits) < c.maxAttempts
        /\ c.pc = "threw" => (failures = c.maxAttempts /\ c.callerPc # "awaitRetry")
        /\ \A k \in DOMAIN c.waits :
              /\ ~c.invoked[k].ok
              /\ IF isRateLimit(c.invoked[k].error)
                 THEN /\ c.waits[k] >= c.baseDelay * 2 ^ k
                      /\ c.waits[k] < 2 * c.baseDelay * 2 ^ k
                 ELSE c.waits[k] = c.baseDelay

\* C29 witness: a generic failure and then a rate-limited one with the
\* largest jitter, each followed by its delay.
C29_Witness ==
    /\ retryCall.maxAttempts = maxAttempts
    /\ retryCall.pc = "waiting"
    /\ retryCall.waits = <<baseDelay, 7996>>

\* ------------------------------------------------------------- start()
\* C31: start() never ends before it has opened the subscription and set
\* the heartbeat, whatever its awaits gave.
C31_StartupNeverAborts == ~Exited

\* ------------------------------------------------------------ after stop()
\* C32: once stop() has returned, no step opens a subscription, starts a
\* connect attempt or dequeues a job.
C32_QuietAfterStop ==
    [][stopped
        => /\ \A k \in SubKeys : liveSubs'[k] <= liveSubs[k]
           /\ \A r \in Relays : Inflight(r)' <= Inflight(r)
           /\ Len(dequeuedLog') <= Len(dequeuedLog)]_vars

\* ----------------------------------------------------- the subscriptions
\* C33: under each relay-list key the pool holds one open subscription when
\* the map holds an uncalled closer under that key and none otherwise, so
\* calling every closer of the map leaves no subscription open.
C33_NoLeak ==
    /\ \A k \in SubKeys : liveSubs[k] = IF subscriptions[k] = "open" THEN 1 ELSE 0
    /\ \A k \in SubKeys : CloseAll(Subs).live[k] = 0

\* C33 witness: both relays were reconnected after start() had subscribed:
\* three subscriptions are open under three keys.
C33_Witness ==
    /\ ~stopped
    /\ \A k \in SubKeys : subscriptions[k] = "open" /\ liveSubs[k] = 1

\* C34: the step that opens the subscription over all relays while a
\* connected relay has a subscription of its own open leaves that one
\* closed, so that no connected relay is under two open subscriptions.
C34_OneSubscriptionPerRelay ==
    [][\A r \in Relays :
        (r \in connected /\ liveSubs[Only(r)] > 0 /\ liveSubs'[AllRelays] > liveSubs[AllRelays])
            => liveSubs'[Only(r)] = 0]_vars

\* ---------------------------------------------------------- correlation
\* C35: every message published for the job in processing has exactly one
\* e tag, which carries that job's event id, and exactly one p tag, which
\* carries the pubkey of that job's event; a result also carries that job's
\* event in its request tag.
C35_Correlated ==
    \A i \in DOMAIN workers :
        \A k \in DOMAIN workers[i].msgs :
            LET w == workers[i]
                m == w.msgs[k]
            IN  /\ Cardinality(Tagged(m.tags, "e")) = 1
                /\ Cardinality(Tagged(m.tags, "p")) = 1
                /\ TagValue(m, "e") = w.event.id
                /\ TagValue(m, "p") = w.event.pubkey
                /\ m.kind = JOB_RESULT => TagValue(m, "request") = JSONstringify(w.event)

\* C35 witness: r2 of u2 is in processing after r1 of u1 was, its inference
\* failed and its error feedback is published.
C35_Witness ==
    /\ dequeuedLog = <<"r1", "r2">>
    /\ \E i \in DOMAIN workers :
          /\ workers[i].event = E2
          /\ Shape(workers[i]) = OnFailure
          /\ workers[i].inference = "failed"

\* ------------------------------------------------- the chat_completion tool
\* A request the handler is to refuse: another tool, messages that are not
\* a non-empty array, or no model (none given, or an empty one).
Refused(c) ==
    \/ c.name # "chat_completion"
    \/ c.arguments.messages.type # "array"
    \/ c.arguments.messages.length = 0
    \/ c.arguments.model \in {Absent, String("")}

\* The argument when it is a number, the default otherwise.
OrDefault(v, default) == IF v.type = "number" THEN v ELSE Number(default)

\* C36: once the handler has run, a refused request has thrown an error
\* with no API call made; any other request has had exactly one API call,
\* with its messages and model and with 0.7, 1024 and 1 in place of a
\* temperature, max_tokens and top_p that is not a number; and a call that
\* failed has thrown an error that begins with "Groq API error".
C36_ToolCall ==
    LET c == toolCall
        a == c.arguments
    IN  /\ Len(c.calls) <= 1
        /\ (c.pc # "idle" /\ Refused(c))
              => (c.pc = "threw" /\ c.calls = <<>> /\ c.outcome.kind = "error")
        /\ (c.pc # "idle" /\ ~Refused(c))
              => /\ Len(c.calls) = 1
                 /\ c.calls[1] = [messages |-> a.messages,
                                  model |-> a.model,
                                  temperature |-> OrDefault(a.temperature, "0.7"),
                                  max_tokens |-> OrDefault(a.max_tokens, "1024"),
                                  top_p |-> OrDefault(a.top_p, "1"),
                                  stream |-> False]
        /\ (c.pc = "threw" /\ c.calls # <<>>)
              => /\ c.outcome.kind = "error"
                 /\ c.outcome.text[1] \in {"Groq API error: ",
                                            "Groq API error: An unknown error occurred"}
        /\ c.pc = "returned" => (c.calls # <<>> /\ c.outcome.kind = "content")

\* C36 witness: a request with a temperature given as a string and
\* max_tokens as a number went to the API with 0.7 and 256, and the API
\* rejected with an Error.
C36_Witness ==
    /\ toolCall.pc = "threw"
    /\ toolCall.arguments.temperature = String("0.2")
    /\ toolCall.arguments.max_tokens = Number("256")
    /\ Len(toolCall.calls) = 1
    /\ toolCall.calls[1].temperature = Number("0.7")
    /\ toolCall.calls[1].max_tokens = Number("256")
    /\ toolCall.outcome = Thrown(<<"Groq API error: ", "rate limited">>)

====
